---- MODULE Spec2Model ----
(***************************************************************************)
(* Model of the silverc lexer (src/src/lexer/mod.rs): the character        *)
(* cursor, the indentation stack, the pending-token queue and              *)
(* Lexer::next, one action per path through one call of next; of the tree  *)
(* walk (src/src/tree) and of the source map (src/src/source_map).         *)
(*                                                                         *)
(* A source text is a sequence of one-character strings; the cursor is the *)
(* number of characters consumed so far, which is also the index that      *)
(* Enumerate gives to the next character.                                  *)
(***************************************************************************)
EXTENDS Integers, Sequences, FiniteSets

VARIABLES
    src,                \* Lexer.src: the text being lexed
    pos,                \* Lexer.cursor: number of characters consumed
    token_queue,        \* Lexer.token_queue
    indentation_stack,  \* Lexer.indentation_stack
    is_line_start,      \* Lexer.is_line_start
    line_start_idx,     \* Lexer.line_start_idx
    ret,                \* what the last call of next returned
    out,                \* history: the tokens returned so far, with provenance
    queue_src,          \* history: provenance of the tokens in token_queue
    last,               \* history: the state the last call started from
    line,               \* history: the first measurement of the current line
    irregular,          \* history: some dedent matched no level of the stack
    tree,               \* the Tree a TreeWalk borrows
    walk,               \* TreeWalk: stack and current
    walk_ret,           \* what the last call of TreeWalk::next returned
    yielded,            \* history: the nodes TreeWalk::next returned so far
    source_tree,        \* SourceMap.source_tree
    disk,               \* the content of each file on disk
    source_id_map,      \* SourceMap.source_id_map
    map_ret,            \* what the last call of get_module returned
    loads,              \* history: how often each file's content was read
    returned            \* history: the file first returned for each module

lexer_vars == <<src, pos, token_queue, indentation_stack, is_line_start,
                line_start_idx, ret, out, queue_src, last, line, irregular>>

walk_vars == <<tree, walk, walk_ret, yielded>>

map_vars == <<source_tree, disk, source_id_map, map_ret, loads, returned>>

vars == <<lexer_vars, walk_vars, map_vars>>

----------------------------------------------------------------------------
(* Bounds and inputs *)

MaxLen == 8

Alphabet == {" ", "\n", "="}

(* the sources of the unit tests of src/src/lexer/test.rs *)

(* normal_indent *)
NormalIndentText ==
    <<"+", "\n", " ", " ", " ", " ", "+", "\n", "+", "\n", " ", " ", " ",
      " ", "+">>

(* tok_lens *)
TokLensText ==
    <<"l", "e", "t", " ", "i", " ", "=", " ", "t", "r", "u", "e">>

(* valid_ident_names *)
IdentNamesText ==
    <<"v", "a", "l", "i", "d", " ", "_", "v", "a", "l", "i", "d", " ", "_",
      "_", "v", "a", "l", "i", "d", " ", "v", "4", "l", "1", "d", " ", "v",
      "a", "l", "i", "d", "_", "a", "l", "s", "0", " ", "1", "n", "v", "a",
      "l", "i", "d">>

(* comment *)
CommentText ==
    <<"l", "e", "t", " ", "i", " ", "=", " ", "t", "r", "u", "e", " ", "#",
      " ", "T", "h", "i", "s", " ", "i", "s", " ", "a", " ", "c", "o", "m",
      "m", "e", "n", "t">>

(* basic_func_def *)
FuncDefText ==
    <<"d", "e", "f", " ", "h", "e", "l", "l", "o", "(", ")", ":", "\n",
      " ", " ", " ", " ", "p", "r", "i", "n", "t", "(", "\"", "H", "e",
      "l", "l", "o", " ", "w", "o", "r", "l", "d", "!", "\"", ")">>

Inputs == UNION {[1..n -> Alphabet] : n \in 0..MaxLen} \cup {NormalIndentText}

(* texts of operator characters *)
MaxOpLen == 3

OpAlphabet == {"+", "-", "*", "/", "%", "^", "&", "|", "=", "<", ">", "!",
               " ", "\n"}

OpInputs == UNION {[1..n -> OpAlphabet] : n \in 0..MaxOpLen}

(* texts of words, numbers and characters without a scanner arm *)
MaxWordLen == 4

WordAlphabet == {"i", "1", "_", "#", "\"", "$", " ", "\n"}

WordInputs ==
    UNION {[1..n -> WordAlphabet] : n \in 0..MaxWordLen}
    \cup {TokLensText, IdentNamesText, CommentText, FuncDefText}

(* texts with tabs *)
MaxTabLen == 5

TabAlphabet == {" ", "\t", "\n", "="}

TabInputs == UNION {[1..n -> TabAlphabet] : n \in 0..MaxTabLen}

----------------------------------------------------------------------------
(* Span *)

SpanNewSwapped(start_idx, end_idx) ==
    [start_idx |-> start_idx, end_idx |-> end_idx, len |-> start_idx - end_idx]

SpanNew(start_idx, end_idx) ==
    [start_idx |-> start_idx, end_idx |-> end_idx, len |-> end_idx - start_idx]

(* Token; text is <<>> for kinds that carry none *)
Token(kind, text, span) == [kind |-> kind, text |-> text, span |-> span]

----------------------------------------------------------------------------
(* Character classes *)

Lower == {"a","b","c","d","e","f","g","h","i","j","k","l","m",
          "n","o","p","q","r","s","t","u","v","w","x","y","z"}
Upper == {"A","B","C","D","E","F","G","H","I","J","K","L","M",
          "N","O","P","Q","R","S","T","U","V","W","X","Y","Z"}

is_digit_sep == {"0","1","2","3","4","5","6","7","8","9","_"}

is_digit == {"0","1","2","3","4","5","6","7","8","9"}

is_ident_start_dollar == {"_", "$"} \cup Lower \cup Upper

is_ident_start == {"_"} \cup Lower \cup Upper

is_ident_body_alpha == {"_"} \cup Lower \cup Upper

is_ident_body == {"_"} \cup Lower \cup Upper \cup is_digit

----------------------------------------------------------------------------
(* Cursor *)

NoChar == "EOF"

(* Peekable::peek on a cursor that has consumed p characters of s *)
Peek(s, p) == IF p < Len(s) THEN s[p + 1] ELSE NoChar

(* length of the longest run of characters of class starting at offset p *)
RECURSIVE RunLen(_, _, _)
RunLen(s, p, class) ==
    IF Peek(s, p) \in class THEN 1 + RunLen(s, p + 1, class) ELSE 0

take_while_through(s, p, class) ==
    LET n == RunLen(s, p, class)
    IN  IF Peek(s, p + n) # NoChar THEN n + 1 ELSE n

(* Cursor::take_while: the number of characters it consumes *)
take_while(s, p, class) == RunLen(s, p, class)

skip_whitespace_blank(s, p) == RunLen(s, p, {" ", "\t"})

(* Cursor::skip_whitespace: the count it returns, which is also the
   number of characters it consumes *)
skip_whitespace(s, p) == RunLen(s, p, {" "})

----------------------------------------------------------------------------
(* Scanner: the match on the first character of a content token *)

Op1(c) ==
    CASE c = "+" -> "Plus"       [] c = "-" -> "Minus"
      [] c = "*" -> "Star"       [] c = "/" -> "Slash"
      [] c = "(" -> "LParen"     [] c = ")" -> "RParen"
      [] c = "[" -> "LBracket"   [] c = "]" -> "RBracket"
      [] c = "{" -> "LBrace"     [] c = "}" -> "RBrace"
      [] c = ":" -> "Colon"      [] c = ";" -> "Semi"
      [] c = "." -> "Dot"        [] c = "," -> "Comma"
      [] c = "%" -> "Percent"    [] c = "^" -> "Caret"
      [] c = "&" -> "Amper"      [] c = "|" -> "Pipe"
      [] c = "~" -> "Tilde"      [] c = "=" -> "Equals"
      [] c = "<" -> "Less"       [] c = ">" -> "Greater"
      [] c = "!" -> "Not"        [] c = "@" -> "At"
      [] c = "\n" -> "NewLine"
      [] OTHER -> "Unknown"

(* the two-character operators: first character c, peeked character d *)
Op2(c, d) ==
    CASE c = "+" /\ d = "=" -> "PlusEquals"
      [] c = "-" /\ d = "=" -> "MinusEquals"
      [] c = "-" /\ d = ">" -> "RArrow"
      [] c = "*" /\ d = "=" -> "StarEquals"
      [] c = "*" /\ d = "*" -> "StarStar"
      [] c = "/" /\ d = "=" -> "SlashEquals"
      [] c = "%" /\ d = "=" -> "PercentEquals"
      [] c = "^" /\ d = "=" -> "CaretEquals"
      [] c = "&" /\ d = "=" -> "AmperEquals"
      [] c = "|" /\ d = "=" -> "PipeEquals"
      [] c = "=" /\ d = "=" -> "EqualsEquals"
      [] c = "<" /\ d = "=" -> "LessEquals"
      [] c = "<" /\ d = "<" -> "LShift"
      [] c = ">" /\ d = "=" -> "GreaterEquals"
      [] c = ">" /\ d = ">" -> "RShift"
      [] c = "!" /\ d = "=" -> "NotEquals"
      [] OTHER -> "None"

Op3Never(k2) == "None"

(* the three-character operators, reached from a two-character one *)
Op3(k2) ==
    CASE k2 = "StarStar" -> "StarStarEquals"
      [] k2 = "LShift" -> "LShiftEquals"
      [] k2 = "RShift" -> "RShiftEquals"
      [] OTHER -> "None"

(* the token kind, text and number of characters consumed by the match
   on the character at offset p (p < Len(s)) *)
ScanKind(s, p) ==
    LET c == s[p + 1]
        d == Peek(s, p + 1)
        k2 == Op2(c, d)
    IN  IF c \in is_ident_start
        THEN LET n == take_while(s, p + 1, is_ident_body)
             IN  [kind |-> "Identifier", text |-> SubSeq(s, p + 1, p + 1 + n),
                  used |-> n + 1]
        ELSE IF c \in is_digit
        THEN LET n == take_while(s, p + 1, is_digit)
             IN  [kind |-> "IntegerLiteral", text |-> SubSeq(s, p + 1, p + 1 + n),
                  used |-> n + 1]
        ELSE IF k2 # "None"
        THEN IF Op3(k2) # "None" /\ Peek(s, p + 2) = "="
             THEN [kind |-> Op3(k2), text |-> <<>>, used |-> 3]
             ELSE [kind |-> k2, text |-> <<>>, used |-> 2]
        ELSE [kind |-> Op1(c), text |-> <<>>, used |-> 1]

----------------------------------------------------------------------------
(* Lexer: the pieces of next *)

Top(stack) == stack[Len(stack)]

IndentDeeperOrEqual(indent_level, top) == indent_level >= top

(* the comparison that selects the indent branch *)
IndentDeeper(indent_level, top) == indent_level > top

(* the comparison that selects the dedent branch *)
IndentShallower(indent_level, top) == indent_level < top

PushIndentReplaceTop(stack, indent_level) ==
    [stack EXCEPT ![Len(stack)] = indent_level]

(* indentation_stack.push(indent_level) *)
PushIndent(stack, indent_level) == Append(stack, indent_level)

RemainingStackKeep(stack, indent_level) == stack

(* the filter_map that keeps the stacked indents <= indent_level *)
RemainingStack(stack, indent_level) ==
    SelectSeq(stack, LAMBDA stacked_indent : stacked_indent <= indent_level)

IndentToken(lsi) == Token("Indent", <<>>, SpanNew(lsi, lsi))

DedentTokenWide(lsi) == Token("Dedent", <<>>, SpanNew(lsi, lsi + 1))

DedentToken(lsi) == Token("Dedent", <<>>, SpanNew(lsi, lsi))

(* the tokens the dedent branch pushes on the queue *)
DedentTokens(popped_count, lsi) == [i \in 1..popped_count |-> DedentToken(lsi)]

PopBack(queue) ==
    [tok |-> queue[Len(queue)], rest |-> SubSeq(queue, 1, Len(queue) - 1)]

PopFrontPeek(queue) == [tok |-> Head(queue), rest |-> queue]

(* token_queue.pop_front() on a non-empty queue *)
PopFront(queue) == [tok |-> Head(queue), rest |-> Tail(queue)]

ClosingTokensEarly(end_idx, stack) ==
    <<Token("NewLine", <<>>, SpanNew(end_idx, end_idx + 1))>>
    \o [i \in 1..(Len(stack) - 1) |->
            Token("Dedent", <<>>, SpanNew(end_idx + 1, end_idx + 1))]

(* the tokens pushed on the queue when the cursor has no character left
   after a content token ending at end_idx *)
ClosingTokens(end_idx, stack) ==
    <<Token("NewLine", <<>>, SpanNew(end_idx + 1, end_idx + 2))>>
    \o [i \in 1..(Len(stack) - 1) |->
            Token("Dedent", <<>>, SpanNew(end_idx + 2, end_idx + 2))]

NoToken == Token("None", <<>>, SpanNew(0, 0))

Some(tok) == [tag |-> "Some", tok |-> tok]

None == [tag |-> "None", tok |-> NoToken]

----------------------------------------------------------------------------
(* History bookkeeping: no effect on the lexer's state *)

(* TRUE when width is a level recorded on the stack *)
InStack(width, stack) == \E i \in 1..Len(stack) : stack[i] = width

Origin(origin, ln) == [origin |-> origin, line |-> ln]

(* the state a call starts from; width is the count skip_whitespace
   returns in that call, -1 when the call returns before measuring *)
Pre(branch, width) ==
    [branch |-> branch, width |-> width, pos |-> pos,
     queue |-> token_queue, stack |-> indentation_stack,
     is_line_start |-> is_line_start, line_start_idx |-> line_start_idx]

Emit(tok, origin) == out' = Append(out, [tok |-> tok, src |-> origin])

(* the first measurement made for the line starting at line_start_idx *)
Measure(width) ==
    line' = IF is_line_start /\ line.start # line_start_idx
            THEN [start |-> line_start_idx, width |-> width,
                  stack |-> indentation_stack, out_len |-> Len(out)]
            ELSE line

----------------------------------------------------------------------------
(* Tree and TreeWalk (src/src/tree) *)

MaxNodes == 5

(* A Tree is laid out as an arena: its nodes are 1..n, node 1 is the root,
   a reference &Tree is the number of a node.  A parent map gives the
   parent of every node but the root; the children of a node are kept in
   the order of their numbers. *)
ParentMaps(n) == {p \in [2..n -> 1..n] : \A i \in 2..n : p[i] < i}

ChildrenOf(n, p, i) ==
    SelectSeq([j \in 1..n |-> j], LAMBDA j : j >= 2 /\ p[j] = i)

(* Tree::Leaf or Tree::Branch for each node: a node with children is a
   Branch, a Branch may have no child *)
KindMaps(n, p) ==
    {k \in [1..n -> {"Leaf", "Branch"}] : \A i \in 2..n : k[p[i]] = "Branch"}

Arena(n, p, k, v) ==
    [kind |-> k, children |-> [i \in 1..n |-> ChildrenOf(n, p, i)],
     value |-> v]

Nodes(t) == DOMAIN t.kind

(* the trees a TreeWalk is run on; the value of a node is its number *)
WalkTrees ==
    UNION {UNION {{Arena(n, p, k, [i \in 1..n |-> i]) : k \in KindMaps(n, p)}
                  : p \in ParentMaps(n)}
           : n \in 1..MaxNodes}

NoNode == 0

WalkSome(node) == [tag |-> "Some", node |-> node]

WalkNone == [tag |-> "None", node |-> NoNode]

(* TreeWalk::new *)
TreeWalkNew(root) == [stack |-> <<root>>, current |-> root]

TreeWalkNextNoChildren(t, w) ==
    IF w.stack = <<>>
    THEN [walk |-> w, ret |-> WalkNone]
    ELSE LET next == w.stack[Len(w.stack)]
             popped == SubSeq(w.stack, 1, Len(w.stack) - 1)
         IN  [walk |-> [stack |-> popped, current |-> next],
              ret |-> WalkSome(next)]

(* Iterator::next of TreeWalk: the walk after the call and what it
   returns *)
TreeWalkNext(t, w) ==
    IF w.stack = <<>>
    THEN [walk |-> w, ret |-> WalkNone]
    ELSE LET next == w.stack[Len(w.stack)]
             popped == SubSeq(w.stack, 1, Len(w.stack) - 1)
         IN  [walk |-> [stack |-> IF t.kind[next] = "Leaf" THEN popped
                                   ELSE popped \o t.children[next],
                        current |-> next],
              ret |-> WalkSome(next)]

(* a tree of one leaf, for the runs that walk no tree *)
OneLeaf == Arena(1, <<>>, <<"Leaf">>, <<1>>)

NotCalled == [tag |-> "NotCalled"]

WalkIdle ==
    /\ tree = OneLeaf
    /\ walk = TreeWalkNew(1)
    /\ walk_ret = NotCalled
    /\ yielded = <<>>

----------------------------------------------------------------------------
(* SourceMap (src/src/source_map) *)

MaxMapNodes == 4

MaxFileLen == 1

MaxLoads == 2

(* the names of the files and directories of a project *)
MapNames == {"a", "b"}

(* no directory holds two entries of one name *)
NameMaps(n, p) ==
    {nm \in [1..n -> MapNames] :
        \A i, j \in 2..n : (i # j /\ p[i] = p[j]) => nm[i] # nm[j]}

(* ModulePath: the names from the root down to the module, which is what
   the derived equality compares and what to_string joins with "/" *)
RECURSIVE ModulePathNew(_, _, _)
ModulePathNew(p, nm, i) ==
    IF i = 1 THEN <<nm[1]>> ELSE Append(ModulePathNew(p, nm, p[i]), nm[i])

(* ModulePath::get_name *)
get_name(module_path) == module_path[Len(module_path)]

(* a tree of no node, where load_tree returns no tree *)
NoTree == [kind |-> <<>>, children |-> <<>>, value |-> <<>>]

LoadErr(msg) == [tag |-> "Err", msg |-> msg, tree |-> NoTree]

LoadOk(t) == [tag |-> "Ok", msg |-> "", tree |-> t]

(* SourceMap::load_tree on a root path holding n entries, itself counted:
   Err when nothing is at the path or the root is a file, otherwise a
   Branch per directory and a Leaf per file, each holding the
   DeferredSourceFile of its module path *)
load_tree(n, p, k, nm) ==
    IF n = 0 THEN LoadErr("Root path does not exist!")
    ELSE IF k[1] = "Leaf" THEN LoadErr("Root path should be a directory")
    ELSE LoadOk(Arena(n, p, k, [i \in 1..n |-> ModulePathNew(p, nm, i)]))

(* what load_tree returns over the projects of up to MaxMapNodes entries *)
LoadResults ==
    UNION {UNION {UNION {{load_tree(n, p, k, nm) : nm \in NameMaps(n, p)}
                         : k \in KindMaps(n, p)}
                  : p \in ParentMaps(n)}
           : n \in 0..MaxMapNodes}

(* the trees SourceMap::new keeps: those load_tree returned as Ok *)
SourceTrees == {r.tree : r \in {x \in LoadResults : x.tag = "Ok"}}

(* the content of a file on disk: its length and whether it is valid
   UTF-8, which an empty content is *)
Content(len, utf8) == [len |-> len, utf8 |-> utf8]

(* the contents the files of a tree can have on disk *)
Disks(t) ==
    {d \in [Nodes(t) -> {Content(len, utf8) : len \in 0..MaxFileLen,
                                              utf8 \in BOOLEAN}] :
        \A i \in Nodes(t) :
            /\ t.kind[i] = "Branch" => d[i] = Content(0, TRUE)
            /\ d[i].len = 0 => d[i].utf8}

(* a module path that names no node of a tree *)
UnknownPath == <<"zz">>

NoCode == [tag |-> "None", start |-> 0, end |-> 0]

(* SourceCode::new, the content kept as its length *)
SourceCodeNew(start, data_len) ==
    [tag |-> "Some", start |-> start, end |-> data_len + start]

(* DeferredSourceCode::load: the length of the content read; expect
   panics when read_to_string fails, as on content that is not UTF-8 *)
load(content) == [panic |-> ~content.utf8, data_len |-> content.len]

(* SourceFile::new: no source code for a directory, the content read from
   disk for a file; the panic of load is the panic of new *)
SourceFileNew(t, d, node, offset) ==
    IF t.kind[node] = "Branch"
    THEN [panic |-> FALSE,
          file |-> [module_path |-> t.value[node], source_code |-> NoCode]]
    ELSE LET source_code_data == load(d[node])
         IN  [panic |-> source_code_data.panic,
              file |-> [module_path |-> t.value[node],
                        source_code |->
                            SourceCodeNew(offset, source_code_data.data_len)]]

(* SourceFile::source_contains_pos *)
source_contains_pos(file, position) ==
    IF file.source_code.tag = "Some"
    THEN file.source_code.start <= position
         /\ position < file.source_code.end
    ELSE FALSE

(* the SourceFileID get_module computes: the hash of the module's name
   alone, kept as the name hashed; two ids are equal when the names are *)
SourceFileID(module_path) == [hash_of |-> get_name(module_path)]

(* SourceMap::get_offset: the start of the entry the map's iterator
   yields last, which can be any entry; unwrap panics when that entry is
   a directory *)
get_offset(m) ==
    IF DOMAIN m = {}
    THEN {[panic |-> FALSE, offset |-> 0]}
    ELSE {IF m[id].source_code.tag = "Some"
          THEN [panic |-> FALSE, offset |-> m[id].source_code.start]
          ELSE [panic |-> TRUE, offset |-> 0] : id \in DOMAIN m}

(* SourceMap::get_file_with_pos: the files find can return *)
get_file_with_pos(m, position) ==
    {m[id] : id \in {i \in DOMAIN m : source_contains_pos(m[i], position)}}

(* HashMap::insert *)
Insert(m, id, file) ==
    [i \in DOMAIN m \cup {id} |-> IF i = id THEN file ELSE m[i]]

(* the walk of get_module: the first node whose path is module_path *)
RECURSIVE WalkFind(_, _, _)
WalkFind(t, w, module_path) ==
    LET r == TreeWalkNext(t, w)
    IN  IF r.ret.tag = "None" THEN NoNode
        ELSE IF t.value[r.ret.node] = module_path THEN r.ret.node
        ELSE WalkFind(t, r.walk, module_path)

NoFile == [module_path |-> <<>>, source_code |-> NoCode]

(* the source map of an empty directory, for the runs that use no source
   map *)
MapIdle ==
    /\ source_tree = load_tree(1, <<>>, <<"Branch">>, <<"a">>).tree
    /\ disk = <<Content(0, TRUE)>>
    /\ source_id_map = <<>>
    /\ map_ret = NotCalled
    /\ loads = <<0>>
    /\ returned = <<NoFile>>

----------------------------------------------------------------------------
(* Lexer::new *)

New(texts) ==
    /\ src \in texts
    /\ pos = 0
    /\ token_queue = <<>>
    /\ indentation_stack = <<0>>
    /\ is_line_start = TRUE
    /\ line_start_idx = 0
    /\ ret = [tag |-> "NotCalled", tok |-> NoToken]
    /\ out = <<>>
    /\ queue_src = <<>>
    /\ last = [branch |-> "new", width |-> -1, pos |-> 0, queue |-> <<>>,
               stack |-> <<0>>, is_line_start |-> TRUE, line_start_idx |-> 0]
    /\ line = [start |-> -1, width |-> 0, stack |-> <<0>>, out_len |-> 0]
    /\ irregular = FALSE

Init == New(Inputs) /\ WalkIdle /\ MapIdle

InitOps == New(OpInputs) /\ WalkIdle /\ MapIdle

InitWords == New(WordInputs) /\ WalkIdle /\ MapIdle

InitTabs == New(TabInputs) /\ WalkIdle /\ MapIdle

----------------------------------------------------------------------------
(* Lexer::next, one action per path *)

(* the queue holds a token: return it *)
Drain ==
    /\ token_queue # <<>>
    /\ LET r == PopFront(token_queue)
       IN  /\ token_queue' = r.rest
           /\ ret' = Some(r.tok)
           /\ Emit(r.tok, Head(queue_src))
    /\ queue_src' = Tail(queue_src)
    /\ last' = Pre("drain", -1)
    /\ UNCHANGED <<src, pos, indentation_stack, is_line_start, line_start_idx,
                   line, irregular>>
    /\ UNCHANGED <<walk_vars, map_vars>>

(* line start, deeper than the top of the stack: push and return Indent *)
LineStartIndent ==
    /\ token_queue = <<>>
    /\ LET indent_level == skip_whitespace(src, pos)
       IN  /\ is_line_start
           /\ IndentDeeper(indent_level, Top(indentation_stack))
           /\ pos' = pos + indent_level
           /\ is_line_start' = FALSE
           /\ indentation_stack' = PushIndent(indentation_stack, indent_level)
           /\ ret' = Some(IndentToken(line_start_idx))
           /\ Emit(IndentToken(line_start_idx), Origin("indent", line_start_idx))
           /\ last' = Pre("indent", indent_level)
           /\ Measure(indent_level)
    /\ UNCHANGED <<src, token_queue, queue_src, line_start_idx, irregular>>
    /\ UNCHANGED <<walk_vars, map_vars>>

(* line start, shallower than the top of the stack: queue one Dedent per
   popped entry and return the first; is_line_start is left as it is *)
LineStartDedent ==
    /\ token_queue = <<>>
    /\ LET indent_level == skip_whitespace(src, pos)
           remaining_stack == RemainingStack(indentation_stack, indent_level)
           popped_count == Len(indentation_stack) - Len(remaining_stack)
           pushed == DedentTokens(popped_count, line_start_idx)
       IN  /\ is_line_start
           /\ ~IndentDeeper(indent_level, Top(indentation_stack))
           /\ IndentShallower(indent_level, Top(indentation_stack))
           /\ pushed # <<>>
           /\ pos' = pos + indent_level
           /\ indentation_stack' = remaining_stack
           /\ LET r == PopFront(pushed)
              IN  /\ token_queue' = r.rest
                  /\ ret' = Some(r.tok)
                  /\ Emit(r.tok, Origin("dedent", line_start_idx))
           /\ queue_src' = [i \in 1..(popped_count - 1) |->
                                Origin("dedent", line_start_idx)]
           /\ last' = Pre("dedent", indent_level)
           /\ Measure(indent_level)
           /\ irregular' = (irregular \/ ~InStack(indent_level, indentation_stack))
    /\ UNCHANGED <<src, is_line_start, line_start_idx>>
    /\ UNCHANGED <<walk_vars, map_vars>>

(* TRUE when a call with an empty queue leaves the line-start block
   without returning *)
FallsThrough(indent_level) ==
    \/ ~is_line_start
    \/ /\ ~IndentDeeper(indent_level, Top(indentation_stack))
       /\ \/ ~IndentShallower(indent_level, Top(indentation_stack))
          \/ Len(RemainingStack(indentation_stack, indent_level))
                = Len(indentation_stack)

ScanClosingUnwinds ==
    /\ token_queue = <<>>
    /\ LET indent_level == skip_whitespace(src, pos)
           start_idx == pos + indent_level
       IN  /\ FallsThrough(indent_level)
           /\ start_idx < Len(src)
           /\ LET m == ScanKind(src, start_idx)
                  end_idx == start_idx + m.used - 1
                  tok == Token(m.kind, m.text, SpanNew(start_idx, end_idx + 1))
                  at_end == Peek(src, end_idx + 1) = NoChar
                  closing == IF at_end
                             THEN ClosingTokens(end_idx, indentation_stack)
                             ELSE <<>>
              IN  /\ pos' = end_idx + 1
                  /\ is_line_start' = (m.kind = "NewLine")
                  /\ line_start_idx' = IF m.kind = "NewLine" THEN start_idx + 1
                                       ELSE line_start_idx
                  /\ token_queue' = closing
                  /\ queue_src' = [i \in 1..Len(closing) |->
                                       Origin("closing", line_start_idx)]
                  /\ indentation_stack' = IF at_end THEN <<0>>
                                          ELSE indentation_stack
                  /\ ret' = Some(tok)
                  /\ Emit(tok, Origin("scan", line_start_idx))
           /\ last' = Pre("scan", indent_level)
           /\ Measure(indent_level)
    /\ UNCHANGED <<src, irregular>>
    /\ UNCHANGED <<walk_vars, map_vars>>

(* a character is left: scan one content token; when it was the last
   character, queue the closing NewLine and Dedents *)
Scan ==
    /\ token_queue = <<>>
    /\ LET indent_level == skip_whitespace(src, pos)
           start_idx == pos + indent_level
       IN  /\ FallsThrough(indent_level)
           /\ start_idx < Len(src)
           /\ LET m == ScanKind(src, start_idx)
                  end_idx == start_idx + m.used - 1
                  tok == Token(m.kind, m.text, SpanNew(start_idx, end_idx + 1))
                  closing == IF Peek(src, end_idx + 1) = NoChar
                             THEN ClosingTokens(end_idx, indentation_stack)
                             ELSE <<>>
              IN  /\ pos' = end_idx + 1
                  /\ is_line_start' = (m.kind = "NewLine")
                  /\ line_start_idx' = IF m.kind = "NewLine" THEN start_idx + 1
                                       ELSE line_start_idx
                  /\ token_queue' = closing
                  /\ queue_src' = [i \in 1..Len(closing) |->
                                       Origin("closing", line_start_idx)]
                  /\ ret' = Some(tok)
                  /\ Emit(tok, Origin("scan", line_start_idx))
           /\ last' = Pre("scan", indent_level)
           /\ Measure(indent_level)
    /\ UNCHANGED <<src, indentation_stack, irregular>>
    /\ UNCHANGED <<walk_vars, map_vars>>

ExhaustedKeepLineStart ==
    /\ token_queue = <<>>
    /\ LET indent_level == skip_whitespace(src, pos)
       IN  /\ FallsThrough(indent_level)
           /\ pos + indent_level >= Len(src)
           /\ pos' = pos + indent_level
           /\ ret' = None
           /\ last' = Pre("none", indent_level)
           /\ Measure(indent_level)
    /\ UNCHANGED <<src, token_queue, queue_src, indentation_stack,
                   is_line_start, line_start_idx, out, irregular>>
    /\ UNCHANGED <<walk_vars, map_vars>>

(* no character is left: return None *)
Exhausted ==
    /\ token_queue = <<>>
    /\ LET indent_level == skip_whitespace(src, pos)
       IN  /\ FallsThrough(indent_level)
           /\ pos + indent_level >= Len(src)
           /\ pos' = pos + indent_level
           /\ is_line_start' = FALSE
           /\ ret' = None
           /\ last' = Pre("none", indent_level)
           /\ Measure(indent_level)
    /\ UNCHANGED <<src, token_queue, queue_src, indentation_stack,
                   line_start_idx, out, irregular>>
    /\ UNCHANGED <<walk_vars, map_vars>>

Next == Drain \/ LineStartIndent \/ LineStartDedent \/ Scan \/ Exhausted

Spec == Init /\ [][Next]_vars

SpecOps == InitOps /\ [][Next]_vars

SpecWords == InitWords /\ [][Next]_vars

SpecTabs == InitTabs /\ [][Next]_vars

----------------------------------------------------------------------------
(* TreeWalk: Iterator::next, one action per path *)

LexerIdle == New({<<>>})

InitWalk ==
    /\ tree \in WalkTrees
    /\ walk = TreeWalkNew(1)
    /\ walk_ret = NotCalled
    /\ yielded = <<>>
    /\ LexerIdle
    /\ MapIdle

(* the popped node is a leaf *)
WalkLeaf ==
    /\ walk.stack # <<>>
    /\ tree.kind[walk.stack[Len(walk.stack)]] = "Leaf"
    /\ LET r == TreeWalkNext(tree, walk)
       IN  /\ walk' = r.walk
           /\ walk_ret' = r.ret
           /\ yielded' = Append(yielded, r.ret.node)
    /\ UNCHANGED <<tree, lexer_vars, map_vars>>

(* the popped node is a branch: its children go on the stack *)
WalkBranch ==
    /\ walk.stack # <<>>
    /\ tree.kind[walk.stack[Len(walk.stack)]] = "Branch"
    /\ LET r == TreeWalkNext(tree, walk)
       IN  /\ walk' = r.walk
           /\ walk_ret' = r.ret
           /\ yielded' = Append(yielded, r.ret.node)
    /\ UNCHANGED <<tree, lexer_vars, map_vars>>

(* the stack is empty *)
WalkNoneLeft ==
    /\ walk.stack = <<>>
    /\ LET r == TreeWalkNext(tree, walk)
       IN  /\ walk' = r.walk
           /\ walk_ret' = r.ret
    /\ UNCHANGED <<tree, yielded, lexer_vars, map_vars>>

NextWalk == WalkLeaf \/ WalkBranch \/ WalkNoneLeft

SpecWalk == InitWalk /\ [][NextWalk]_vars

----------------------------------------------------------------------------
(* SourceMap::new and SourceMap::get_module, one action per path.  The
   project root lies in the current directory and the disk does not change
   after load_tree.  A call that panics leaves the map as it was, and the
   map can be called again by a caller that caught the panic. *)

(* SourceMap::new *)
InitMap ==
    /\ source_tree \in SourceTrees
    /\ disk \in Disks(source_tree)
    /\ source_id_map = <<>>
    /\ map_ret = NotCalled
    /\ loads = [i \in Nodes(source_tree) |-> 0]
    /\ returned = [i \in Nodes(source_tree) |-> NoFile]
    /\ LexerIdle
    /\ WalkIdle

(* the module paths get_module is called with *)
Requests ==
    {source_tree.value[i] : i \in Nodes(source_tree)} \cup {UnknownPath}

(* the ids of the registered files of a module path *)
Registered(module_path) ==
    {id \in DOMAIN source_id_map :
        source_id_map[id].module_path = module_path}

MapSome(module_path, file) ==
    [tag |-> "Some", module_path |-> module_path, file |-> file]

(* the file first returned for each module *)
Returned(node, file) ==
    returned' = IF returned[node] = NoFile
                THEN [returned EXCEPT ![node] = file]
                ELSE returned

(* the module is registered: return its file *)
GetModuleRegistered ==
    /\ \E module_path \in Requests :
          \E id \in Registered(module_path) :
             LET file == source_id_map[id]
                 node == WalkFind(source_tree, TreeWalkNew(1), module_path)
             IN  /\ map_ret' = MapSome(module_path, file)
                 /\ Returned(node, file)
    /\ UNCHANGED <<source_tree, disk, source_id_map, loads>>
    /\ UNCHANGED <<lexer_vars, walk_vars>>

(* the module is not registered and the walk finds no node of its path *)
GetModuleUnknown ==
    /\ \E module_path \in Requests :
          /\ Registered(module_path) = {}
          /\ WalkFind(source_tree, TreeWalkNew(1), module_path) = NoNode
          /\ map_ret' = [tag |-> "None", module_path |-> module_path]
    /\ UNCHANGED <<source_tree, disk, source_id_map, loads, returned>>
    /\ UNCHANGED <<lexer_vars, walk_vars>>

(* the module is not registered, the walk finds it and get_offset unwraps
   the offset of a directory: the call panics and leaves the map as it
   was *)
GetModulePanics ==
    /\ \E module_path \in Requests :
          /\ Registered(module_path) = {}
          /\ WalkFind(source_tree, TreeWalkNew(1), module_path) # NoNode
          /\ \E o \in get_offset(source_id_map) : o.panic
          /\ map_ret' = [tag |-> "Panic", module_path |-> module_path]
    /\ UNCHANGED <<source_tree, disk, source_id_map, loads, returned>>
    /\ UNCHANGED <<lexer_vars, walk_vars>>

(* the module is not registered and the walk finds it: build its
   SourceFile at get_offset, register it under the hash of its name and
   return it *)
GetModuleLoads ==
    /\ \E module_path \in Requests :
          LET node == WalkFind(source_tree, TreeWalkNew(1), module_path)
          IN  /\ Registered(module_path) = {}
              /\ node # NoNode
              /\ source_tree.kind[node] = "Leaf" => loads[node] < MaxLoads
              /\ \E o \in get_offset(source_id_map) :
                    LET new == SourceFileNew(source_tree, disk, node, o.offset)
                        sf == new.file
                    IN  /\ ~o.panic
                        /\ ~new.panic
                        /\ source_id_map'
                             = Insert(source_id_map,
                                      SourceFileID(sf.module_path), sf)
                        /\ map_ret' = MapSome(module_path, sf)
                        /\ Returned(node, sf)
              /\ loads' = IF source_tree.kind[node] = "Leaf"
                          THEN [loads EXCEPT ![node] = @ + 1]
                          ELSE loads
    /\ UNCHANGED <<source_tree, disk>>
    /\ UNCHANGED <<lexer_vars, walk_vars>>

(* the module is not registered, the walk finds it, get_offset returns
   and load panics on the file's content: nothing is registered *)
GetModuleLoadPanics ==
    /\ \E module_path \in Requests :
          LET node == WalkFind(source_tree, TreeWalkNew(1), module_path)
          IN  /\ Registered(module_path) = {}
              /\ node # NoNode
              /\ \E o \in get_offset(source_id_map) :
                    /\ ~o.panic
                    /\ SourceFileNew(source_tree, disk, node, o.offset).panic
              /\ map_ret' = [tag |-> "Panic", module_path |-> module_path]
    /\ UNCHANGED <<source_tree, disk, source_id_map, loads, returned>>
    /\ UNCHANGED <<lexer_vars, walk_vars>>

NextMap ==
    \/ GetModuleRegistered
    \/ GetModuleUnknown
    \/ GetModulePanics
    \/ GetModuleLoads
    \/ GetModuleLoadPanics

SpecMap == InitMap /\ [][NextMap]_vars

----------------------------------------------------------------------------
(* Properties *)

(* number of returned tokens of a kind *)
Count(kind) == Cardinality({i \in 1..Len(out) : out[i].tok.kind = kind})

(* number of occurrences of a character in the source *)
CountChar(c) == Cardinality({i \in 1..Len(src) : src[i] = c})

(* a Dedent produced by the line-start dedent branch *)
IsLineDedent(i) == out[i].tok.kind = "Dedent" /\ out[i].src.origin = "dedent"

(* a token produced by the scanner other than NewLine *)
IsContent(i) == out[i].src.origin = "scan" /\ out[i].tok.kind # "NewLine"

(* C1: for a text with consistent indentation, ending with a newline or
   not, the complete stream (up to None) holds as many Dedent tokens as
   Indent tokens. *)
C1_IndentDedentBalanced ==
    (ret.tag = "None" /\ ~irregular) => Count("Indent") = Count("Dedent")

(* C2: at a line start whose width w is below the top of the stack and
   is a level of the stack, exactly k Dedent tokens precede the line's
   first content token, k the number of entries above w, and the top of the
   stack is w when that token is scanned. *)
C2_PartialDedentExact ==
    ( /\ last.branch = "scan" /\ last.is_line_start
      /\ ret.tok.kind # "NewLine"
      /\ line.start = last.line_start_idx
      /\ line.width < Top(line.stack)
      /\ InStack(line.width, line.stack) )
    => /\ Cardinality({i \in (line.out_len + 1)..(Len(out) - 1) :
                          out[i].tok.kind = "Dedent"})
            = Cardinality({i \in 1..Len(line.stack) : line.stack[i] > line.width})
       /\ Top(last.stack) = line.width

(* C3: for a non-empty text ending with a newline the closing adds no
   synthetic NewLine: the complete stream holds one NewLine per newline
   character. *)
C3_NoSyntheticNewLine ==
    (ret.tag = "None" /\ Len(src) > 0 /\ src[Len(src)] = "\n")
    => /\ Count("NewLine") = CountChar("\n")
       /\ \A i \in 1..Len(out) : out[i].src.origin # "closing"

(* C4: for a non-empty text not ending with a newline the complete stream
   ends with exactly one synthetic NewLine followed by one Dedent per level
   open beyond the base, and nothing after them. *)
C4_ClosingSequence ==
    (ret.tag = "None" /\ Len(src) > 0 /\ src[Len(src)] # "\n")
    => LET n == Len(indentation_stack) - 1
       IN  /\ Len(out) >= n + 1
           /\ out[Len(out) - n].tok.kind = "NewLine"
           /\ out[Len(out) - n].src.origin = "closing"
           /\ \A i \in (Len(out) - n + 1)..Len(out) : out[i].tok.kind = "Dedent"
           /\ Cardinality({i \in 1..Len(out) : out[i].src.origin = "closing"
                                                /\ out[i].tok.kind = "NewLine"}) = 1

(* C5: at a line start whose width is below the top of the stack and is no
   level of the stack, next returns an InconsistentIndentation error
   carrying the width and the line's start offset, and emits no Dedent. *)
C5_InconsistentSurfaced ==
    ( /\ last.branch \in {"indent", "dedent", "scan", "none"}
      /\ last.is_line_start
      /\ last.width < Top(last.stack)
      /\ ~InStack(last.width, last.stack) )
    => ret.tag = "Err"

(* C6: when next returns None the indentation stack is back to its base
   <<0>>. *)
C6_StackUnwound == ret.tag = "None" => indentation_stack = <<0>>

(* C7: at a line start whose width w is above the top of the stack, next
   pushes w, returns one Indent with a zero-length span at the line's start
   offset and clears is_line_start; the following call returns no second
   Indent but scans at the first character after the line's spaces. *)
C7_Step ==
    /\ ( /\ token_queue = <<>> /\ is_line_start
         /\ skip_whitespace(src, pos) > Top(indentation_stack) )
       => /\ indentation_stack'
               = Append(indentation_stack, skip_whitespace(src, pos))
          /\ ret' = [tag |-> "Some",
                     tok |-> [kind |-> "Indent", text |-> <<>>,
                              span |-> [start_idx |-> line_start_idx,
                                        end_idx |-> line_start_idx, len |-> 0]]]
          /\ is_line_start' = FALSE
          /\ pos' = pos + skip_whitespace(src, pos)
          /\ token_queue' = <<>>
          /\ line_start_idx' = line_start_idx
          /\ Len(out') = Len(out) + 1
    /\ last.branch = "indent"
       => /\ last'.branch \in {"scan", "none"}
          /\ pos = last.pos + last.width
          /\ indentation_stack' = indentation_stack
          /\ last'.branch = "scan" => ret'.tok.span.start_idx = pos

C7_IndentBranch == [][C7_Step]_vars

(* an Indent deeper than its parent by more than one column has been
   returned and the line's first token scanned after it *)
C7_Witness ==
    /\ last.branch = "scan"
    /\ Len(out) >= 2
    /\ out[Len(out) - 1].tok.kind = "Indent"
    /\ Len(indentation_stack) = 3
    /\ Top(indentation_stack) >= indentation_stack[2] + 2

(* C8: the indentation stack is never empty, its bottom is 0 and its
   entries increase strictly from bottom to top. *)
C8_StackShape ==
    /\ Len(indentation_stack) >= 1
    /\ indentation_stack[1] = 0
    /\ \A i \in 1..(Len(indentation_stack) - 1) :
           indentation_stack[i] < indentation_stack[i + 1]

(* a dedent has filtered a three-level stack and left two levels *)
C8_Witness ==
    /\ last.branch = "dedent"
    /\ Len(last.stack) = 3
    /\ Len(indentation_stack) = 2

(* C9: a call that starts with a non-empty queue returns the head of the
   queue, removes it, and leaves the cursor, the stack, is_line_start and
   line_start_idx as they were. *)
C9_Step ==
    token_queue # <<>>
    => /\ ret' = [tag |-> "Some", tok |-> Head(token_queue)]
       /\ token_queue' = Tail(token_queue)
       /\ out' = Append(out, [tok |-> Head(token_queue), src |-> Head(queue_src)])
       /\ UNCHANGED <<pos, indentation_stack, is_line_start, line_start_idx>>

C9_QueueFirst == [][C9_Step]_vars

(* a queued token was delivered while characters were still unread *)
C9_Witness ==
    /\ last.branch = "drain"
    /\ ret.tok = Head(last.queue)
    /\ pos < Len(src)

(* C10: the Dedent tokens of one line start are returned on consecutive
   calls, before any content token of that line, each with the zero-length
   span at the line's start offset. *)
C10_LineDedents ==
    \A i \in 1..Len(out) :
        IsLineDedent(i)
        => /\ out[i].tok.span = [start_idx |-> out[i].src.line,
                                 end_idx |-> out[i].src.line, len |-> 0]
           /\ \A j \in i..Len(out) :
                  (IsLineDedent(j) /\ out[j].src.line = out[i].src.line)
                  => \A k \in i..j : IsLineDedent(k)
                                     /\ out[k].src.line = out[i].src.line
           /\ \A k \in 1..i :
                  ~(IsContent(k) /\ out[k].src.line = out[i].src.line)

(* two levels were closed at one line start, the second Dedent came from
   the queue, and the line's first content token followed *)
C10_Witness ==
    /\ last.branch = "scan"
    /\ Len(out) >= 3
    /\ IsContent(Len(out))
    /\ IsLineDedent(Len(out) - 1)
    /\ IsLineDedent(Len(out) - 2)
    /\ line.start = last.line_start_idx
    /\ line.width = 0
    /\ Len(line.stack) = 3

(* the state-level view of the last call when it scanned a token: the
   offset of the token's first character *)
ScanStart == last.pos + last.width

(* the operator spellings of the token vocabulary (TokenKind), each with
   its kind *)
Operators ==
    {
      [sp |-> <<"+">>, kind |-> "Plus"],
      [sp |-> <<"-">>, kind |-> "Minus"],
      [sp |-> <<"*">>, kind |-> "Star"],
      [sp |-> <<"/">>, kind |-> "Slash"],
      [sp |-> <<"%">>, kind |-> "Percent"],
      [sp |-> <<"^">>, kind |-> "Caret"],
      [sp |-> <<"&">>, kind |-> "Amper"],
      [sp |-> <<"|">>, kind |-> "Pipe"],
      [sp |-> <<"=">>, kind |-> "Equals"],
      [sp |-> <<"<">>, kind |-> "Less"],
      [sp |-> <<">">>, kind |-> "Greater"],
      [sp |-> <<"!">>, kind |-> "Not"],
      [sp |-> <<"-", ">">>, kind |-> "RArrow"],
      [sp |-> <<"=", "=">>, kind |-> "EqualsEquals"],
      [sp |-> <<"!", "=">>, kind |-> "NotEquals"],
      [sp |-> <<"<", "=">>, kind |-> "LessEquals"],
      [sp |-> <<">", "=">>, kind |-> "GreaterEquals"],
      [sp |-> <<"<", "<">>, kind |-> "LShift"],
      [sp |-> <<">", ">">>, kind |-> "RShift"],
      [sp |-> <<"*", "*">>, kind |-> "StarStar"],
      [sp |-> <<"+", "=">>, kind |-> "PlusEquals"],
      [sp |-> <<"-", "=">>, kind |-> "MinusEquals"],
      [sp |-> <<"*", "=">>, kind |-> "StarEquals"],
      [sp |-> <<"/", "=">>, kind |-> "SlashEquals"],
      [sp |-> <<"%", "=">>, kind |-> "PercentEquals"],
      [sp |-> <<"&", "=">>, kind |-> "AmperEquals"],
      [sp |-> <<"|", "=">>, kind |-> "PipeEquals"],
      [sp |-> <<"^", "=">>, kind |-> "CaretEquals"],
      [sp |-> <<"<", "<", "=">>, kind |-> "LShiftEquals"],
      [sp |-> <<">", ">", "=">>, kind |-> "RShiftEquals"],
      [sp |-> <<"*", "*", "=">>, kind |-> "StarStarEquals"] }

(* spelling sp is what the text s holds at offset p *)
SpelledAt(s, p, sp) ==
    p + Len(sp) <= Len(s) /\ SubSeq(s, p + 1, p + Len(sp)) = sp

(* the longest operator spelled at offset p of s *)
LongestOperator(s, p) ==
    CHOOSE e \in Operators :
        /\ SpelledAt(s, p, e.sp)
        /\ \A f \in Operators : SpelledAt(s, p, f.sp) => Len(f.sp) <= Len(e.sp)

(* C11: at an operator character the scanner returns the kind of the
   longest operator spelled at the cursor and consumes exactly its
   characters. *)
C11_LongestMatch ==
    ( /\ last.branch = "scan"
      /\ \E e \in Operators : SpelledAt(src, ScanStart, e.sp) )
    => LET e == LongestOperator(src, ScanStart)
       IN  /\ ret.tok.kind = e.kind
           /\ ret.tok.span = [start_idx |-> ScanStart,
                              end_idx |-> ScanStart + Len(e.sp),
                              len |-> Len(e.sp)]
           /\ pos = ScanStart + Len(e.sp)

(* a three-character operator was scanned *)
C11_Witness ==
    /\ last.branch = "scan"
    /\ ret.tok.kind \in {"StarStarEquals", "LShiftEquals", "RShiftEquals"}
    /\ Len(src) = 3

(* the (start, len) pairs of the spans of the returned tokens *)
StartLens ==
    [i \in 1..Len(out) |-> <<out[i].tok.span.start_idx, out[i].tok.span.len>>]

(* C12: a content token's span starts at the offset of its first
   character and its len is the number of characters it consumed (for
   "let i = true": (0,3) (4,1) (6,1) (8,4)); the synthetic closing NewLine
   starts at the number of characters of the text and has len 1. *)
C12_SpanExact ==
    /\ last.branch = "scan"
       => /\ ret.tok.span.start_idx = ScanStart
          /\ src[ScanStart + 1] # " "
          /\ \A k \in (last.pos + 1)..ScanStart : src[k] = " "
          /\ ret.tok.span.len = pos - ScanStart
          /\ ret.tok.span.len >= 1
    /\ \A i \in 1..Len(out) :
           (out[i].src.origin = "closing" /\ out[i].tok.kind = "NewLine")
           => out[i].tok.span.start_idx = Len(src) /\ out[i].tok.span.len = 1
    /\ (src = TokLensText /\ ret.tag = "None")
       => StartLens = << <<0, 3>>, <<4, 1>>, <<6, 1>>, <<8, 4>>, <<12, 1>> >>

(* the text of tok_lens was lexed to its end *)
C12_Witness ==
    /\ src = TokLensText
    /\ ret.tag = "None"
    /\ Len(out) = 5

(* a span whose end is not before its start and whose len is their
   difference *)
SpanOk(span) ==
    span.end_idx >= span.start_idx /\ span.len = span.end_idx - span.start_idx

(* C13: every token the lexer makes, returned or still queued, has a span
   with end >= start and len = end - start. *)
C13_SpansWellFormed ==
    /\ \A i \in 1..Len(out) : SpanOk(out[i].tok.span)
    /\ \A i \in 1..Len(token_queue) : SpanOk(token_queue[i].span)

(* a complete stream holding a content token, an Indent, a line-start
   Dedent and a closing NewLine *)
C13_Witness ==
    /\ ret.tag = "None"
    /\ \E i \in 1..Len(out) : IsContent(i)
    /\ \E i \in 1..Len(out) : out[i].tok.kind = "Indent"
    /\ \E i \in 1..Len(out) : IsLineDedent(i)
    /\ \E i \in 1..Len(out) : out[i].src.origin = "closing"
                               /\ out[i].tok.kind = "NewLine"
    /\ \E i \in 1..Len(out) : out[i].src.origin = "closing"
                               /\ out[i].tok.kind = "Dedent"

(* the offset of the first newline of s at or after offset p, Len(s) when
   there is none *)
LineEnd(s, p) == p + RunLen(s, p, {s[i] : i \in 1..Len(s)} \ {"\n"})

(* C14: a '#' yields one Comment token that consumes every character up
   to, not including, the next newline or the end of the text. *)
C14_CommentToken ==
    (last.branch = "scan" /\ src[ScanStart + 1] = "#")
    => /\ ret.tok.kind = "Comment"
       /\ pos = LineEnd(src, ScanStart)

(* the kinds of the returned tokens *)
Kinds == [i \in 1..Len(out) |-> out[i].tok.kind]

AsciiLetters ==
    {"a","b","c","d","e","f","g","h","i","j","k","l","m","n","o","p","q",
     "r","s","t","u","v","w","x","y","z","A","B","C","D","E","F","G","H",
     "I","J","K","L","M","N","O","P","Q","R","S","T","U","V","W","X","Y",
     "Z"}

DecimalDigits == {"0","1","2","3","4","5","6","7","8","9"}

(* the characters some arm of the scanner's match names, and the space
   that skip_whitespace consumes *)
RecognisedChars ==
    AsciiLetters \cup DecimalDigits
    \cup {"_", "+", "-", "*", "/", "(", ")", "[", "]", "{", "}", ":", ";",
          ".", ",", "%", "^", "&", "|", "~", "=", "<", ">", "!", "@", "\n",
          " "}

(* C15: a character no scanner rule recognises yields one Unknown token
   of exactly that character, and lexing goes on after it; alone as the
   whole text it yields Unknown, NewLine. *)
C15_UnknownChar ==
    /\ (last.branch = "scan" /\ src[ScanStart + 1] \notin RecognisedChars)
       => /\ ret.tok.kind = "Unknown"
          /\ ret.tok.span = [start_idx |-> ScanStart,
                             end_idx |-> ScanStart + 1, len |-> 1]
          /\ pos = ScanStart + 1
          /\ indentation_stack = last.stack
    /\ (Len(src) = 1 /\ src[1] \notin RecognisedChars /\ ret.tag = "None")
       => Kinds = <<"Unknown", "NewLine">>
    /\ (Len(out) >= 2 /\ out[Len(out) - 1].tok.kind = "Unknown"
          /\ last.branch = "scan")
       => ret.tok.span.start_idx >= out[Len(out) - 1].tok.span.end_idx

(* an unrecognised character was lexed and the token after it scanned *)
C15_Witness ==
    /\ last.branch = "scan"
    /\ Len(out) >= 2
    /\ out[Len(out) - 1].tok.kind = "Unknown"
    /\ src[out[Len(out) - 1].tok.span.start_idx + 1] = "$"
    /\ ret.tok.kind = "Identifier"

IdentBodyChars == AsciiLetters \cup DecimalDigits \cup {"_"}

(* C16: at an ASCII letter or '_' the scanner returns one Identifier whose
   text is the maximal run of ASCII alphanumeric or '_' characters from
   there; the character after the run is not consumed, and "def" is an
   Identifier like any other word. *)
C16_Identifier ==
    /\ (last.branch = "scan" /\ src[ScanStart + 1] \in AsciiLetters \cup {"_"})
       => /\ ret.tok.kind = "Identifier"
          /\ ret.tok.text = SubSeq(src, ScanStart + 1, pos)
          /\ \A k \in (ScanStart + 1)..pos : src[k] \in IdentBodyChars
          /\ pos < Len(src) => src[pos + 1] \notin IdentBodyChars
          /\ ret.tok.span.len = Len(ret.tok.text)
    /\ (src = FuncDefText /\ Len(out) >= 1)
       => /\ out[1].tok.kind = "Identifier"
          /\ out[1].tok.text = <<"d", "e", "f">>

(* an identifier holding a digit was scanned up to a character that ends
   it *)
C16_Witness ==
    /\ last.branch = "scan"
    /\ ret.tok.kind = "Identifier"
    /\ \E k \in 1..Len(ret.tok.text) : ret.tok.text[k] \in DecimalDigits
    /\ pos < Len(src)
    /\ src[pos + 1] \notin {" ", "\n"}

(* C17: at a decimal digit the scanner returns one IntegerLiteral whose
   text is the maximal run of decimal digits from there; a letter or '_'
   right after the run is not consumed and starts the next token. *)
C17_IntegerLiteral ==
    /\ (last.branch = "scan" /\ src[ScanStart + 1] \in DecimalDigits)
       => /\ ret.tok.kind = "IntegerLiteral"
          /\ ret.tok.text = SubSeq(src, ScanStart + 1, pos)
          /\ \A k \in (ScanStart + 1)..pos : src[k] \in DecimalDigits
          /\ pos < Len(src) => src[pos + 1] \notin DecimalDigits
          /\ ret.tok.span.len = Len(ret.tok.text)
    /\ ( /\ last.branch = "scan" /\ Len(out) >= 2
         /\ out[Len(out) - 1].tok.kind = "IntegerLiteral"
         /\ src[out[Len(out) - 1].tok.span.end_idx + 1]
               \in AsciiLetters \cup {"_"} )
       => /\ ret.tok.kind = "Identifier"
          /\ ret.tok.span.start_idx = out[Len(out) - 1].tok.span.end_idx

(* a literal of two digits was scanned and the word right after it
   started the next token *)
C17_Witness ==
    /\ last.branch = "scan"
    /\ Len(out) >= 2
    /\ out[Len(out) - 1].tok.kind = "IntegerLiteral"
    /\ Len(out[Len(out) - 1].tok.text) = 2
    /\ ret.tok.kind = "Identifier"
    /\ ret.tok.span.start_idx = out[Len(out) - 1].tok.span.end_idx

(* C18: a word that begins with a decimal digit and goes on with
   identifier characters is one Unknown token covering the word. *)
C18_DigitWordUnknown ==
    ( /\ last.branch = "scan"
      /\ src[ScanStart + 1] \in DecimalDigits
      /\ RunLen(src, ScanStart, IdentBodyChars)
            > RunLen(src, ScanStart, DecimalDigits) )
    => /\ ret.tok.kind = "Unknown"
       /\ pos = ScanStart + RunLen(src, ScanStart, IdentBodyChars)

(* the offset of the first '"' of s at or after offset p, Len(s) when
   there is none *)
QuoteAt(s, p) == p + RunLen(s, p, {s[i] : i \in 1..Len(s)} \ {"\""})

(* C19: a double-quoted run of characters yields one StringLiteral whose
   text is the characters between the quotes. *)
C19_StringLiteral ==
    ( /\ last.branch = "scan"
      /\ src[ScanStart + 1] = "\""
      /\ QuoteAt(src, ScanStart + 1) < Len(src) )
    => /\ ret.tok.kind = "StringLiteral"
       /\ ret.tok.text = SubSeq(src, ScanStart + 2, QuoteAt(src, ScanStart + 1))
       /\ pos = QuoteAt(src, ScanStart + 1) + 1

(* C20: sibling blocks at one width are independent Indent/Dedent pairs:
   a line at width 0 leaves the stack at its base before its first token
   is scanned, a later line at width w > 0 then gives a new Indent, and
   the text of normal_indent yields Plus, NewLine, Indent, Plus, NewLine,
   Dedent, Plus, NewLine, Indent, Plus, NewLine, Dedent. *)
C20_SiblingBlocks ==
    /\ ( /\ last.branch = "scan" /\ last.is_line_start
         /\ line.start = last.line_start_idx /\ line.width = 0 )
       => last.stack = <<0>>
    /\ ( /\ last.branch \in {"indent", "dedent", "scan", "none"}
         /\ last.is_line_start
         /\ last.stack = <<0>> /\ last.width > 0 )
       => /\ ret.tok.kind = "Indent"
          /\ indentation_stack = <<0, last.width>>
    /\ (src = NormalIndentText /\ ret.tag = "None")
       => Kinds = <<"Plus", "NewLine", "Indent", "Plus", "NewLine", "Dedent",
                    "Plus", "NewLine", "Indent", "Plus", "NewLine", "Dedent">>

(* the text of normal_indent was lexed to its end *)
C20_Witness ==
    /\ src = NormalIndentText
    /\ ret.tag = "None"
    /\ Len(out) = 12
    /\ Count("Indent") = 2

----------------------------------------------------------------------------
(* End of the stream *)

(* C21: next returns None only when the queue is empty and the cursor has
   no character left, and after a call that returned None every later call
   returns None. *)
C21_Step ==
    /\ ret'.tag = "None"
       => /\ token_queue = <<>>
          /\ token_queue' = <<>>
          /\ pos' = Len(src)
          /\ Peek(src, pos') = NoChar
    /\ ret.tag = "None" => ret'.tag = "None"

C21_NoneTerminal == [][C21_Step]_vars

(* a call made after None was returned, on a text ending with a newline,
   returned None again *)
C21_Witness ==
    /\ ret.tag = "None"
    /\ last.branch = "none"
    /\ ~last.is_line_start
    /\ Len(out) > 0
    /\ src[Len(src)] = "\n"

(* what is left to do: the characters not consumed, weighted above the
   longest closing sequence one scan can queue, the queued tokens and the
   stacked levels *)
Variant ==
    (Len(src) + 2) * (Len(src) - pos) + Len(token_queue)
        + Len(indentation_stack)

(* C22: every call that returns a token consumes at least one character,
   removes the head of the pending queue, or pops at least one entry of
   the indentation stack, and strictly decreases a natural-number measure
   of the remaining work, so only finitely many tokens precede None. *)
C22_Step ==
    /\ Variant >= 0
    /\ Variant' >= 0
    /\ ret'.tag = "Some"
       => /\ \/ pos' > pos
             \/ token_queue # <<>> /\ token_queue' = Tail(token_queue)
             \/ Len(indentation_stack') < Len(indentation_stack)
          /\ Variant' < Variant

C22_TokensFinite == [][C22_Step]_vars

(* the dedent branch returned a Dedent without consuming a character *)
C22_Witness ==
    /\ ret.tag = "Some"
    /\ last.branch = "dedent"
    /\ pos = last.pos
    /\ Len(indentation_stack) < Len(last.stack)

----------------------------------------------------------------------------
(* Frame of the indentation stack *)

(* C23: a call made while is_line_start is false, a call that returns a
   queued token, a call that scans a content token (the one that queues the
   end-of-input closing tokens included) and a call that returns None all
   leave the indentation stack unchanged; it changes only in the Indent and
   Dedent branches taken at a line start. *)
C23_Step ==
    /\ ~is_line_start => indentation_stack' = indentation_stack
    /\ last'.branch \in {"drain", "scan", "none"}
       => indentation_stack' = indentation_stack
    /\ indentation_stack' # indentation_stack
       => /\ is_line_start
          /\ last'.branch \in {"indent", "dedent"}
          /\ ret'.tok.kind \in {"Indent", "Dedent"}

C23_StackFrame == [][C23_Step]_vars

(* the last character was scanned inside an open block: the closing tokens
   are queued and the stack still holds the block's level *)
C23_Witness ==
    /\ last.branch = "scan"
    /\ Len(token_queue) > 1
    /\ Len(indentation_stack) > 1
    /\ indentation_stack = last.stack

----------------------------------------------------------------------------
(* Whitespace *)

(* C24: in every call that reaches skip_whitespace, the count it returns is
   the length of the maximal run of spaces at the cursor and the cursor
   moves past exactly that run: the characters skipped are all spaces, the
   character after them, a tab included, is not consumed by it, and a tab
   at the cursor gives the width 0, never an Indent, and is scanned as an
   Unknown token of its own. *)
C24_SkipWhitespace ==
    last.width >= 0
    => /\ \A i \in 1..last.width : src[last.pos + i] = " "
       /\ Peek(src, last.pos + last.width) # " "
       /\ last.branch \in {"indent", "dedent", "none"}
          => pos = last.pos + last.width
       /\ last.branch = "scan"
          => ret.tok.span.start_idx = last.pos + last.width
       /\ Peek(src, last.pos) = "\t"
          => /\ last.width = 0
             /\ last.branch \in {"dedent", "scan"}
             /\ last.branch = "dedent" => pos = last.pos
             /\ last.branch = "scan"
                => /\ ret.tok.kind = "Unknown"
                   /\ ret.tok.span = SpanNew(last.pos, last.pos + 1)

(* a line starts with a space and a tab: the width measured is 1 *)
C24_Witness ==
    /\ last.branch = "indent"
    /\ last.is_line_start
    /\ last.width = 1
    /\ Peek(src, last.pos + 1) = "\t"

----------------------------------------------------------------------------
(* Order of the stream *)

(* C27: at every point of the stream the number of Dedent tokens returned
   so far is at most the number of Indent tokens returned so far. *)
C27_DedentWithinIndent == Count("Dedent") <= Count("Indent")

(* C28: the span start offsets of the returned tokens never decrease in
   the order the tokens are returned, the synthetic Indent, Dedent and
   closing NewLine tokens included. *)
C28_StartsMonotone ==
    \A i \in 1..(Len(out) - 1) :
        out[i].tok.span.start_idx <= out[i + 1].tok.span.start_idx

----------------------------------------------------------------------------
(* Coverage of the source *)

(* the scanned tokens whose span covers the character at offset p *)
Covering(p) ==
    {i \in 1..Len(out) : /\ out[i].src.origin = "scan"
                         /\ out[i].tok.span.start_idx <= p
                         /\ p < out[i].tok.span.end_idx}

(* C29: the spans of two scanned tokens never overlap and no space is inside
   one; an Identifier or IntegerLiteral ends before the first character
   that fails the predicate of its take_while; and when next has returned
   None every character that is not a space is covered by the span of
   exactly one scanned token. *)
C29_Lossless ==
    /\ \A i, j \in 1..Len(out) :
          (i < j /\ out[i].src.origin = "scan" /\ out[j].src.origin = "scan")
          => out[i].tok.span.end_idx <= out[j].tok.span.start_idx
    /\ \A p \in 0..(Len(src) - 1) :
          /\ src[p + 1] = " " => Covering(p) = {}
          /\ Cardinality(Covering(p)) <= 1
          /\ (ret.tag = "None" /\ src[p + 1] # " ")
             => Cardinality(Covering(p)) = 1
    /\ \A i \in 1..Len(out) :
          LET span == out[i].tok.span
          IN  /\ out[i].tok.kind = "Identifier"
                 => /\ Peek(src, span.end_idx) \notin is_ident_body
                    /\ \A p \in (span.start_idx + 1)..(span.end_idx - 1) :
                          src[p + 1] \in is_ident_body
              /\ out[i].tok.kind = "IntegerLiteral"
                 => /\ Peek(src, span.end_idx) \notin is_digit
                    /\ \A p \in span.start_idx..(span.end_idx - 1) :
                          src[p + 1] \in is_digit

(* a complete pass over a text where an identifier of two characters or
   more is directly followed by a character that ends it *)
C29_Witness ==
    /\ ret.tag = "None"
    /\ \E i \in 1..Len(out) :
          /\ out[i].tok.kind = "Identifier"
          /\ out[i].tok.span.len >= 2
          /\ Peek(src, out[i].tok.span.end_idx) \in {"#", "$", "\n"}

----------------------------------------------------------------------------
(* TreeWalk *)

(* TRUE when node a is a proper ancestor of node d *)
RECURSIVE IsAncestor(_, _, _)
IsAncestor(t, a, d) ==
    \E c \in Nodes(t) :
        /\ \E k \in 1..Len(t.children[a]) : t.children[a][k] = c
        /\ (c = d \/ IsAncestor(t, c, d))

(* C30: a TreeWalk returns no node twice and returns a branch before each
   of its descendants; it returns None only when every node of the tree,
   branch or leaf, has been returned, and once every node has been
   returned its stack is empty, so that the next call returns None. *)
C30_WalkComplete ==
    /\ \A i, j \in 1..Len(yielded) : i # j => yielded[i] # yielded[j]
    /\ \A i, j \in 1..Len(yielded) :
          IsAncestor(tree, yielded[j], yielded[i]) => j < i
    /\ \A i \in 1..Len(yielded) :
          \A a \in Nodes(tree) :
              IsAncestor(tree, a, yielded[i])
              => \E j \in 1..(i - 1) : yielded[j] = a
    /\ walk_ret.tag = "Some"
       => yielded # <<>> /\ walk_ret.node = yielded[Len(yielded)]
    /\ walk_ret.tag = "None"
       => {yielded[i] : i \in 1..Len(yielded)} = Nodes(tree)
    /\ {yielded[i] : i \in 1..Len(yielded)} = Nodes(tree)
       => walk.stack = <<>>

(* None was returned after a walk of five nodes over a tree whose root has
   two children, one of them a branch with a child *)
C30_Witness ==
    /\ walk_ret.tag = "None"
    /\ Len(yielded) = 5
    /\ Len(tree.children[1]) = 2
    /\ \E c \in Nodes(tree) : c # 1 /\ tree.children[c] # <<>>

----------------------------------------------------------------------------
(* SourceMap *)

(* the registered files that have source code *)
WithCode == {id \in DOMAIN source_id_map : source_id_map[id].source_code.tag = "Some"}

(* C25: after any sequence of get_module calls the [start, end) ranges of
   the registered files that have source code are pairwise disjoint, and
   get_file_with_pos matches at most one file at any position. *)
C25_RangesDisjoint ==
    /\ \A f, g \in WithCode :
          f # g
          => LET a == source_id_map[f].source_code
                 b == source_id_map[g].source_code
             IN  \A position \in a.start..(a.end - 1) :
                    ~(b.start <= position /\ position < b.end)
    /\ \A position \in 0..(MaxMapNodes * MaxFileLen) :
          Cardinality(get_file_with_pos(source_id_map, position)) <= 1

(* C26: a module that get_module has returned is returned again as the
   file registered first, with the same start offset, and its content is
   read from disk once only, whatever modules were requested in
   between. *)
C26_RegisteredOnce ==
    /\ \A node \in Nodes(source_tree) : loads[node] <= 1
    /\ map_ret.tag = "Some"
       => LET node == WalkFind(source_tree, TreeWalkNew(1),
                               map_ret.module_path)
          IN  /\ map_ret.file = returned[node]
              /\ map_ret.file.source_code.start
                   = returned[node].source_code.start

====
